---------------------------- MODULE Spec2Model ----------------------------
(***************************************************************************)
(* Model of ulvus/ipfs-js: the protobuf wire codec (varint, tagged fields), *)
(* the merkle-DAG node / link / UnixFS payload decoders and encoders, and   *)
(* the recursive, concurrent resolution of a content identifier            *)
(* (ProtoBuf.get -> PBNode.parse -> PBLink.parse -> ProtoBuf.get ...).      *)
(*                                                                         *)
(* Two revisions of ProtoBuf.parse are in the repository and both are      *)
(* modelled: rev "inline" (src/src/protobuf.ts, varints read by the local  *)
(* closure readVarInt) and rev "varint" (src/unnamed/part_002, varints read *)
(* by Varint.decode of ./varint, a file that is not among the sources).    *)
(*                                                                         *)
(* Conventions.  A byte sequence (Uint8Array) is a TLA+ sequence over      *)
(* 0..255; JavaScript's 0-based index i is element i+1.  A JavaScript      *)
(* number holding a decoded varint is kept as a natural number written as  *)
(* a little-endian sequence of 16-bit limbs without leading zero limbs     *)
(* (<<>> is 0), because decoded varints exceed 32 bits.  A content         *)
(* identifier is kept as the byte sequence base58.decode gives for it:     *)
(* base58 is an external collaborator and a bijection on byte sequences.   *)
(***************************************************************************)
EXTENDS Integers, Sequences, FiniteSets, TLC

(***************************************************************************)
(* Natural numbers beyond 32 bits                                          *)
(***************************************************************************)
LimbBase == 256 * 256

RECURSIVE NumOfInt(_)
NumOfInt(i) ==
    IF i = 0 THEN <<>> ELSE <<i % LimbBase>> \o NumOfInt(i \div LimbBase)

\* n * 128 + c, for a carry c below LimbBase
RECURSIVE NumMul128Add(_, _)
NumMul128Add(n, c) ==
    IF n = <<>>
    THEN IF c = 0 THEN <<>> ELSE <<c>>
    ELSE LET x == Head(n) * 128 + c
         IN  <<x % LimbBase>> \o NumMul128Add(Tail(n), x \div LimbBase)

\* one limb of the division by 128: hi is the result for the limbs above
DivStep(limb, hi) ==
    [q |-> IF (hi.r * LimbBase + limb) \div 128 = 0 /\ hi.q = <<>> THEN <<>>
           ELSE <<(hi.r * LimbBase + limb) \div 128>> \o hi.q,
     r |-> (hi.r * LimbBase + limb) % 128]

\* [q |-> n div 128, r |-> n mod 128]
RECURSIVE NumDivMod128(_)
NumDivMod128(n) ==
    IF n = <<>> THEN [q |-> <<>>, r |-> 0]
    ELSE DivStep(Head(n), NumDivMod128(Tail(n)))

\* the number fits the model checker's integers (below 2^30)
NumIsSmall(n) == Len(n) <= 1 \/ (Len(n) = 2 /\ n[2] < 64 * 256)

NumToInt(n) ==
    IF n = <<>> THEN 0
    ELSE IF Len(n) = 1 THEN n[1] ELSE n[1] + n[2] * LimbBase

\* JavaScript's  v >>> 3 : ToUint32(v), the low 32 bits of v, shifted right by 3
UShr3(v) ==
    (IF Len(v) >= 1 THEN v[1] \div 8 ELSE 0)
  + (IF Len(v) >= 2 THEN v[2] * (LimbBase \div 8) ELSE 0)

\* JavaScript's  v & 7
And7(v) == IF v = <<>> THEN 0 ELSE v[1] % 8

\* JavaScript's  a + n > b  for small a, b and any natural n
PlusExceeds(a, n, b) == IF NumIsSmall(n) THEN a + NumToInt(n) > b ELSE TRUE

Min(a, b) == IF a <= b THEN a ELSE b

\* Uint8Array.prototype.slice(from, to): both ends are clamped to the length
Slice(data, from, to) ==
    SubSeq(data, Min(from, Len(data)) + 1, Min(to, Len(data)))

RECURSIVE Concat(_)
Concat(blocks) ==
    IF blocks = <<>> THEN <<>> ELSE Head(blocks) \o Concat(Tail(blocks))

(***************************************************************************)
(* Varints                                                                 *)
(***************************************************************************)
\* data[offset]: a read at or beyond the length gives undefined, and
\* undefined & mask is 0
ByteAt(data, offset) == IF offset < Len(data) THEN data[offset + 1] ELSE 0

\* readVarInt with v.push in place of v.unshift
RECURSIVE ReadVarIntLoop_Push(_, _, _)
ReadVarIntLoop_Push(data, offset, groups) ==
    IF ByteAt(data, offset) >= 128
    THEN IF offset + 1 = Len(data)
         THEN [ok |-> FALSE, err |-> "buffer overrun"]
         ELSE ReadVarIntLoop_Push(data, offset + 1,
                                  Append(groups, ByteAt(data, offset + 1) % 128))
    ELSE [ok |-> TRUE, groups |-> groups, offset |-> offset + 1]

\* the loop of readVarInt: groups is the array v, offset the captured cursor
RECURSIVE ReadVarIntLoop(_, _, _)
ReadVarIntLoop(data, offset, groups) ==
    IF ByteAt(data, offset) >= 128
    THEN IF offset + 1 = Len(data)
         THEN [ok |-> FALSE, err |-> "buffer overrun"]
         ELSE ReadVarIntLoop(data, offset + 1,
                             <<ByteAt(data, offset + 1) % 128>> \o groups)
    ELSE [ok |-> TRUE, groups |-> groups, offset |-> offset + 1]

\* v.forEach(v => result = result * 128 + v)
RECURSIVE AccumulateGroups(_, _)
AccumulateGroups(groups, result) ==
    IF groups = <<>> THEN result
    ELSE AccumulateGroups(Tail(groups), NumMul128Add(result, Head(groups)))

\* the value of the groups read, and the cursor after them
FinishVarInt(r) ==
    IF r.ok
    THEN [ok |-> TRUE, value |-> AccumulateGroups(r.groups, <<>>),
          offset |-> r.offset]
    ELSE r

\* the closure readVarInt of rev "inline": the value and the cursor after it
readVarInt(data, offset) ==
    FinishVarInt(ReadVarIntLoop(data, offset, <<ByteAt(data, offset) % 128>>))

\* Varint.encode of ./varint: 7-bit groups, least significant first, the
\* continuation bit set on every byte but the last
RECURSIVE Varint_encode(_)
EncodeGroups(dm) ==
    IF dm.q = <<>> THEN <<dm.r>> ELSE <<dm.r + 128>> \o Varint_encode(dm.q)

Varint_encode(n) == EncodeGroups(NumDivMod128(n))

\* a byte with the continuation bit set, before the varint rest
DecodeMore(b, rest) ==
    IF rest.ok
    THEN [ok |-> TRUE, value |-> NumMul128Add(rest.value, b % 128),
          length |-> rest.length + 1]
    ELSE rest

\* Varint.decode of ./varint: the value and the number of bytes consumed;
\* it never reads at or beyond the end of the buffer
RECURSIVE Varint_decode(_, _)
Varint_decode(data, offset) ==
    IF offset >= Len(data)
    THEN [ok |-> FALSE, err |-> "buffer overrun"]
    ELSE IF data[offset + 1] < 128
    THEN [ok |-> TRUE, value |-> NumOfInt(data[offset + 1]), length |-> 1]
    ELSE DecodeMore(data[offset + 1], Varint_decode(data, offset + 1))

\* offset += varint.length
Advance(offset, d) ==
    IF d.ok THEN [ok |-> TRUE, value |-> d.value, offset |-> offset + d.length]
    ELSE d

\* one varint read of ProtoBuf.parse in either revision, as the value and the
\* cursor after it
ReadVar(rev, data, offset) ==
    IF rev = "inline" THEN readVarInt(data, offset)
    ELSE Advance(offset, Varint_decode(data, offset))

(***************************************************************************)
(* Schemas and ProtoBuf.parse                                              *)
(***************************************************************************)
WireVarint == 0
WireFixed64 == 1
WireVarLength == 2

UnixFsRaw == 0
UnixFsDirectory == 1
UnixFsFile == 2

\* the length a link's hash must have: a 2-byte multihash prefix and a digest
HashLength == 34
DigestLength == HashLength - 2

Revs == {"inline", "varint"}

\* Schemas[SchemaType.*] of each revision
Schemas(rev, type) ==
    CASE type = "PBNODE" -> [names |-> <<"data", "links">>, repeated |-> {"links"}]
      [] type = "PBLINK" ->
            [names |-> IF rev = "inline" THEN <<"hash", "n", "ts">>
                       ELSE <<"hash", "name", "tsize">>,
             repeated |-> {}]
      [] type = "UNIXFS" ->
            [names |-> IF rev = "inline"
                       THEN <<"type", "data", "fs", "bs", "ht", "fo">>
                       ELSE <<"type", "data", "filesize", "blocksize",
                              "hashtype", "fanout">>,
             repeated |-> {}]

IntVal(n) == [kind |-> "int", num |-> n]
BytesVal(b) == [kind |-> "bytes", bytes |-> b]

Range(s) == {s[i] : i \in 1..Len(s)}

\* if (!tempResult[tag]) tempResult[tag] = [];  tempResult[tag].push(value)
Push(temp, tag, value) ==
    IF tag \in Range(temp.keys)
    THEN [temp EXCEPT !.vals[tag] = Append(@, value)]
    ELSE [keys |-> Append(temp.keys, tag),
          vals |-> [k \in Range(temp.keys) \cup {tag} |->
                       IF k = tag THEN <<value>> ELSE temp.vals[k]]]

\* schema.names[(v >>> 3) - 1]: "" stands for undefined, which is falsy
TagName(schema, v) ==
    LET i == UShr3(v) - 1
    IN  IF 0 <= i /\ i < Len(schema.names) THEN schema.names[i + 1] ELSE ""

\* case WireType.VarLength, once the length l is read at offset: rev
\* "inline" compares the cursor after the length prefix, rev "varint" the
\* cursor before it
SliceField(rev, data, offset, l) ==
    IF ~l.ok THEN l
    ELSE IF PlusExceeds(IF rev = "inline" THEN l.offset ELSE offset,
                        l.value, Len(data))
    THEN [ok |-> FALSE, err |-> "buffer overrun"]
    ELSE [ok |-> TRUE, kind |-> "bytes",
          value |-> Slice(data, l.offset, l.offset + NumToInt(l.value)),
          offset |-> l.offset + NumToInt(l.value)]

ReadVarLength(rev, data, offset) ==
    SliceField(rev, data, offset, ReadVar(rev, data, offset))

\* case WireType.Varint
AsInt(x) ==
    IF x.ok
    THEN [ok |-> TRUE, kind |-> "int", value |-> x.value, offset |-> x.offset]
    ELSE x

ReadVarintField(rev, data, offset) == AsInt(ReadVar(rev, data, offset))

FieldValue(x) == IF x.kind = "int" THEN IntVal(x.value) ELSE BytesVal(x.value)

\* the while loop of ProtoBuf.parse: temp is tempResult
RECURSIVE ParseLoop(_, _, _, _, _)

\* tempResult[tag].push(value), and the next turn of the loop
ParseRest(rev, data, schema, temp, tag, x) ==
    IF ~x.ok THEN [ok |-> FALSE, err |-> x.err]
    ELSE ParseLoop(rev, data, schema, x.offset, Push(temp, tag, FieldValue(x)))

\* the body of the loop once the tag word t is read
ParseField(rev, data, schema, temp, t) ==
    IF ~t.ok THEN t
    ELSE IF TagName(schema, t.value) = ""
    THEN [ok |-> FALSE, err |-> "unknown field"]
    ELSE IF And7(t.value) = WireVarint
    THEN ParseRest(rev, data, schema, temp, TagName(schema, t.value),
                   ReadVarintField(rev, data, t.offset))
    ELSE IF And7(t.value) = WireVarLength
    THEN ParseRest(rev, data, schema, temp, TagName(schema, t.value),
                   ReadVarLength(rev, data, t.offset))
    ELSE [ok |-> FALSE, err |-> "unsupported type - tag"]

ParseLoop(rev, data, schema, offset, temp) ==
    IF ~(offset < Len(data))
    THEN [ok |-> TRUE, temp |-> temp, offset |-> offset]
    ELSE ParseField(rev, data, schema, temp, ReadVar(rev, data, offset))

\* the collapse with the last value pushed in place of the first
Collapse_Last(schema, r) ==
    IF ~r.ok THEN r
    ELSE [ok |-> TRUE,
          offset |-> r.offset,
          keys |-> r.temp.keys,
          fields |-> [k \in Range(r.temp.keys) |->
                         IF k \in schema.repeated THEN r.temp.vals[k]
                         ELSE r.temp.vals[k][Len(r.temp.vals[k])]]]

\* result[key] = repeated[key] ? tempResult[key] : tempResult[key][0];
\* offset is the cursor when the loop ended
Collapse(schema, r) ==
    IF ~r.ok THEN r
    ELSE [ok |-> TRUE,
          offset |-> r.offset,
          keys |-> r.temp.keys,
          fields |-> [k \in Range(r.temp.keys) |->
                         IF k \in schema.repeated THEN r.temp.vals[k]
                         ELSE r.temp.vals[k][1]]]

\* ProtoBuf.parse(data, schema)
ProtoBuf_parse(rev, data, schema) ==
    Collapse(schema,
             ParseLoop(rev, data, schema, 0, [keys |-> <<>>, vals |-> <<>>]))

\* result.key is not undefined
Has(result, key) == key \in Range(result.keys)

(***************************************************************************)
(* PBData, PBLink, PBNode                                                  *)
(***************************************************************************)
\* what a handler does: throw, return a value, or return the join of the
\* fetches it launched (decoded is set by the handler of ProtoBuf.get)
Throw(e) ==
    [kind |-> "throw", err |-> e, bytes |-> <<>>, launched |-> <<>>,
     decoded |-> FALSE]
Value(b) ==
    [kind |-> "value", err |-> "", bytes |-> b, launched |-> <<>>,
     decoded |-> FALSE]
Fetch(id) ==
    [kind |-> "get", err |-> "", bytes |-> id, launched |-> <<>>,
     decoded |-> FALSE]
Join(ids) ==
    [kind |-> "links", err |-> "", bytes |-> <<>>, launched |-> ids,
     decoded |-> FALSE]

\* PBData.parse without the test of result.type
CheckPayload_AnyType(result) ==
    IF ~result.ok THEN Throw(result.err)
    ELSE IF ~Has(result, "data") \/ result.fields["data"] = IntVal(<<>>)
    THEN Value(<<>>)
    ELSE IF result.fields["data"].kind # "bytes"
    THEN Throw("bad Data")
    ELSE Value(result.fields["data"].bytes)

\* PBData.parse, after ProtoBuf.parse
CheckPayload(result) ==
    IF ~result.ok THEN Throw(result.err)
    ELSE IF ~(Has(result, "type")
              /\ result.fields["type"] = IntVal(NumOfInt(UnixFsFile)))
    THEN Throw("unsupported type")
    ELSE IF ~Has(result, "data") \/ result.fields["data"] = IntVal(<<>>)
    THEN Value(<<>>)                \* !result.data
    ELSE IF result.fields["data"].kind # "bytes"
    THEN Throw("bad Data")
    ELSE Value(result.fields["data"].bytes)

\* PBData.parse
PBData_parse(rev, data) ==
    CheckPayload(ProtoBuf_parse(rev, data, Schemas(rev, "UNIXFS")))

\* PBLink.parse, after ProtoBuf.parse: the identifier handed to ProtoBuf.get,
\* or the error thrown
CheckLink(result) ==
    IF ~result.ok THEN Throw(result.err)
    ELSE IF ~Has(result, "hash")
    THEN Throw("TypeError")         \* result.hash.length of undefined
    ELSE IF ~(result.fields["hash"].kind = "bytes"
              /\ Len(result.fields["hash"].bytes) = HashLength)
    THEN Throw("unsupported hash")
    ELSE Fetch(result.fields["hash"].bytes)

\* PBLink.parse of one element of result.links.  ProtoBuf.parse of a number
\* (a link that was decoded as a varint) reads no field at all.
PBLink_parse(rev, link) ==
    CheckLink(IF link.kind = "bytes"
              THEN ProtoBuf_parse(rev, link.bytes, Schemas(rev, "PBLINK"))
              ELSE [ok |-> TRUE, offset |-> 0, keys |-> <<>>, fields |-> <<>>])

\* result.links.forEach(hash => promises.push(PBLink.parse(hash))): the
\* identifiers of the fetches issued, up to the first link that throws
RECURSIVE LaunchLinks(_, _, _)
LaunchNext(rev, links, launched, l) ==
    IF l.kind = "throw" THEN [l EXCEPT !.launched = launched]
    ELSE LaunchLinks(rev, Tail(links), Append(launched, l.bytes))

LaunchLinks(rev, links, launched) ==
    IF links = <<>> THEN Join(launched)
    ELSE LaunchNext(rev, links, launched, PBLink_parse(rev, Head(links)))

\* PBNode.parse with the test of result.data before the test of result.links
DispatchNode_DataFirst(rev, result) ==
    IF ~result.ok THEN Throw(result.err)
    ELSE IF Has(result, "data") /\ result.fields["data"].kind = "bytes"
    THEN PBData_parse(rev, result.fields["data"].bytes)
    ELSE IF Has(result, "links")
    THEN LaunchLinks(rev, result.fields["links"], <<>>)
    ELSE Throw("Missing links or data")

\* PBNode.parse, after ProtoBuf.parse
DispatchNode(rev, result) ==
    IF ~result.ok THEN Throw(result.err)
    ELSE IF Has(result, "links")
    THEN LaunchLinks(rev, result.fields["links"], <<>>)
    ELSE IF Has(result, "data") /\ result.fields["data"].kind = "bytes"
    THEN PBData_parse(rev, result.fields["data"].bytes)
    ELSE Throw("Missing links or data")

\* PBNode.parse up to the point where it returns a promise or throws
PBNode_parse(rev, data) ==
    DispatchNode(rev, ProtoBuf_parse(rev, data, Schemas(rev, "PBNODE")))

\* PBData.encode (rev "varint"): type, data, filesize
EncodePayload(data, size) ==
    Varint_encode(NumOfInt(1 * 8 + WireVarint))
    \o Varint_encode(NumOfInt(UnixFsFile))
    \o Varint_encode(NumOfInt(2 * 8 + WireVarLength)) \o size \o data
    \o Varint_encode(NumOfInt(3 * 8 + WireVarint)) \o size

PBData_encode(data) == EncodePayload(data, Varint_encode(NumOfInt(Len(data))))

\* PBNode.encode with the wire type the schema declares for data
\* (types: [WireType.Varint, ...]) in place of WireType.VarLength
WrapData_SchemaWire(encodedData) ==
    Varint_encode(NumOfInt(1 * 8 + WireVarint))
    \o Varint_encode(NumOfInt(Len(encodedData))) \o encodedData

\* PBNode.encode (rev "varint"), called with data
WrapData(encodedData) ==
    Varint_encode(NumOfInt(1 * 8 + WireVarLength))
    \o Varint_encode(NumOfInt(Len(encodedData))) \o encodedData

PBNode_encode(data) == WrapData(PBData_encode(data))

(***************************************************************************)
(* Integrity check and the handler of ProtoBuf.get                         *)
(***************************************************************************)
\* ethers.utils.sha256 is an external primitive: a 32-byte digest that is
\* computed from every byte of the body and its position
RECURSIVE WeightedSum(_, _, _)
WeightedSum(body, lo, hi) ==
    IF lo > hi THEN 0
    ELSE IF lo = hi THEN ((body[lo] + 1) * (lo * lo + 1)) % 65521
    ELSE LET mid == (lo + hi) \div 2
         IN  (WeightedSum(body, lo, mid) + WeightedSum(body, mid + 1, hi))
             % 65521

Checksum(body) == (WeightedSum(body, 1, Len(body)) + 31 * Len(body)) % 65521

Digest(c) ==
    [i \in 1..DigestLength |->
        IF i = 1 THEN c % 256
        ELSE IF i = 2 THEN c \div 256
        ELSE (c + i) % 256]

Sha256(body) == Digest(Checksum(body))

\* base58.decode(multihash).slice(2)
HashFromCID(id) == Slice(id, 2, Len(id))

\* the callback with the comparison of the digests after PBNode.parse
GetHandler_DecodeFirst(rev, id, body) ==
    IF Sha256(body) # HashFromCID(id)
    THEN [PBNode_parse(rev, body) EXCEPT !.kind = "throw",
                                         !.err = "hash mismatch",
                                         !.decoded = TRUE]
    ELSE [PBNode_parse(rev, body) EXCEPT !.decoded = TRUE]

\* the callback of getUrl(url).then(...) in ProtoBuf.get: decoded tells
\* whether PBNode.parse was invoked on the body
GetHandler(rev, id, body) ==
    IF Sha256(body) # HashFromCID(id)
    THEN [Throw("hash mismatch") EXCEPT !.decoded = FALSE]
    ELSE [PBNode_parse(rev, body) EXCEPT !.decoded = TRUE]

(***************************************************************************)
(* The blocks of the network                                               *)
(***************************************************************************)
\* the widest node and the deepest chain of links among the blocks
MaxFanout == 3
MaxDepth == 2

Tag(field, wire) == Varint_encode(NumOfInt(field * 8 + wire))
LenDelim(field, bytes) ==
    Tag(field, WireVarLength) \o Varint_encode(NumOfInt(Len(bytes))) \o bytes
VarField(field, n) == Tag(field, WireVarint) \o Varint_encode(NumOfInt(n))

\* the multihash of a block: sha2-256 (0x12), 32 bytes, the digest
Multihash(body) == <<18, DigestLength>> \o Sha256(body)

\* a link record { hash, name, tsize } and the links field that carries it
LinkRecord(hash) == LenDelim(1, hash) \o LenDelim(2, <<110>>) \o VarField(3, 7)
LinkTo(body) == LenDelim(2, LinkRecord(Multihash(body)))
RECURSIVE LinksNode(_)
LinksNode(bodies) ==
    IF bodies = <<>> THEN <<>> ELSE LinkTo(Head(bodies)) \o LinksNode(Tail(bodies))

\* a UnixFS payload and the data field that carries it
Payload(type, data) == VarField(1, type) \o LenDelim(2, data)
DataField(type, data) == LenDelim(1, Payload(type, data))

\* leaf i holds i bytes, so no two leaves resolve to the same bytes
LeafData(i) == [j \in 1..i |-> 96 + i]
Leaf(i) == PBNode_encode(LeafData(i))
Fan(k) == LinksNode([i \in 1..k |-> Leaf(i)])
RECURSIVE Chain(_)
Chain(d) == IF d = 0 THEN Leaf(1) ELSE LinksNode(<<Chain(d - 1), Leaf(2)>>)

DirLeaf == DataField(UnixFsDirectory, <<>>)
EmptyNode == <<>>
DirNode == DataField(UnixFsDirectory, <<>>) \o LinkTo(Leaf(1)) \o LinkTo(Leaf(2))
FileNode == LinkTo(Leaf(2)) \o DataField(UnixFsFile, <<>>) \o LinkTo(Leaf(1))
ShortHashNode ==
    LinkTo(Leaf(1)) \o LenDelim(2, LinkRecord(Tail(Multihash(Leaf(2)))))
NoHashNode == LinkTo(Leaf(2)) \o LenDelim(2, LenDelim(2, <<110>>))
TwiceNode == LinksNode(<<Leaf(1), Leaf(1)>>)
LostBlock == PBNode_encode(<<108>>)
DanglingNode == LinksNode(<<Leaf(1), LostBlock>>)
DirInside == LinksNode(<<Leaf(1), DirLeaf>>)

\* an identifier of 34 bytes that names another hash function (0x1b) before
\* the sha256 digest of the block, and a node with a link that carries one
OtherPrefix(body) == <<27, DigestLength>> \o Sha256(body)
OtherPrefixNode ==
    LinkTo(Leaf(2)) \o LenDelim(2, LinkRecord(OtherPrefix(Leaf(1))))

Store ==
    {Leaf(i) : i \in 1..MaxFanout} \cup {Fan(k) : k \in 1..MaxFanout}
    \cup {Chain(d) : d \in 1..MaxDepth}
    \cup {DirLeaf, EmptyNode, DirNode, FileNode, ShortHashNode, NoHashNode,
          TwiceNode, DanglingNode, DirInside, OtherPrefixNode}

\* what a caller may ask for: the blocks of the store, and one that is lost
RootIds ==
    {Multihash(b) : b \in Store}
    \cup {Multihash(LostBlock), OtherPrefix(Leaf(1))}

\* a well-formed block that nobody asked for
CorruptBody == PBNode_encode(<<120>>)

\* the digest under which the network keeps each block
StoreIndex == [b \in Store |-> Sha256(b)]

\* what the fetcher may answer for an identifier: the stored block with that
\* digest, or other bytes
Answers(id) ==
    {b \in Store : StoreIndex[b] = HashFromCID(id)} \cup {CorruptBody}

(***************************************************************************)
(* State                                                                   *)
(***************************************************************************)
VARIABLES
    rev,      \* the revision of ProtoBuf.parse that runs
    tasks,    \* the calls of ProtoBuf.get, by their place in the tree of links:
              \* <<>> is the caller's, p \o <<i>> the one for link i of p
    order,    \* the places in the order in which their fetches settled
    call      \* the last call of a codec function, with its result

vars == <<rev, tasks, order, call>>

NoCall == [op |-> "none", arg |-> <<>>, buf |-> <<>>, out |-> <<>>]

NewTask(id) ==
    [id |-> id, status |-> "fetching", fetched |-> FALSE, body |-> <<>>,
     decoded |-> FALSE, err |-> "", result |-> <<>>, nkids |-> 0]

Parent(p) == SubSeq(p, 1, Len(p) - 1)
Settled(t) == t.status \in {"resolved", "rejected"}

\* the values of the promises in the order in which they settled
SettledKids(ord, q) ==
    SelectSeq(ord, LAMBDA x : Len(x) = Len(q) + 1 /\ Parent(x) = q)
Blocks_ByCompletion(ts, ord, q) ==
    [i \in 1..ts[q].nkids |-> ts[SettledKids(ord, q)[i]].result]

\* the array Promise.all hands to its callback: the values of the promises in
\* the order in which they were pushed
Blocks(ts, ord, q) == [i \in 1..ts[q].nkids |-> ts[q \o <<i>>].result]

\* the reactions with Promise.allSettled in place of Promise.all: the parent
\* waits for every promise and concatenates what the resolved ones gave
RECURSIVE Propagate_AllSettled(_, _, _)
Propagate_AllSettled(ts, ord, p) ==
    IF p = <<>> \/ ~Settled(ts[p]) THEN ts
    ELSE IF ts[Parent(p)].status # "joining" THEN ts
    ELSE IF \A i \in 1..ts[Parent(p)].nkids : Settled(ts[Parent(p) \o <<i>>])
    THEN Propagate_AllSettled(
             [ts EXCEPT ![Parent(p)].status = "resolved",
                        ![Parent(p)].result = Concat(Blocks(ts, ord, Parent(p)))],
             ord, Parent(p))
    ELSE ts

\* the reactions with a join that ignores rejections: the parent of a
\* rejected promise keeps waiting
RECURSIVE Propagate_ResolveOnly(_, _, _)
Propagate_ResolveOnly(ts, ord, p) ==
    IF p = <<>> \/ ~Settled(ts[p]) THEN ts
    ELSE IF ts[Parent(p)].status # "joining" THEN ts
    ELSE IF \A i \in 1..ts[Parent(p)].nkids :
               ts[Parent(p) \o <<i>>].status = "resolved"
    THEN Propagate_ResolveOnly(
             [ts EXCEPT ![Parent(p)].status = "resolved",
                        ![Parent(p)].result = Concat(Blocks(ts, ord, Parent(p)))],
             ord, Parent(p))
    ELSE ts

\* the reactions that run once the promise of p has settled: Promise.all of
\* the parent rejects with the first rejection, or resolves with the
\* concatenation once every promise has resolved; and so on upwards
RECURSIVE Propagate(_, _, _)
Propagate(ts, ord, p) ==
    IF p = <<>> \/ ~Settled(ts[p]) THEN ts
    ELSE LET q == Parent(p)
         IN  IF ts[q].status # "joining" THEN ts
             ELSE IF ts[p].status = "rejected"
             THEN Propagate([ts EXCEPT ![q].status = "rejected",
                                       ![q].err = ts[p].err], ord, q)
             ELSE IF \A i \in 1..ts[q].nkids :
                        ts[q \o <<i>>].status = "resolved"
             THEN Propagate([ts EXCEPT ![q].status = "resolved",
                                       ![q].result = Concat(Blocks(ts, ord, q))],
                            ord, q)
             ELSE ts

\* the task of p after its handler ran with outcome o
AfterHandler(t, body, o) ==
    [t EXCEPT !.fetched = TRUE, !.body = body, !.decoded = o.decoded,
              !.status = IF o.kind = "throw" THEN "rejected"
                         ELSE IF o.kind = "value" THEN "resolved"
                         ELSE "joining",
              !.err = o.err, !.result = o.bytes, !.nkids = Len(o.launched)]

Init ==
    /\ rev \in Revs
    /\ tasks = <<>>
    /\ order = <<>>
    /\ call = NoCall

\* Ipfs.get(multihash): ProtoBuf.get issues the fetch and returns its promise
Get(id) ==
    /\ DOMAIN tasks = {}
    /\ call = NoCall
    /\ tasks' = [p \in {<<>>} |-> NewTask(id)]
    /\ UNCHANGED <<rev, order, call>>

\* getUrl rejects (a transport error): the promise of ProtoBuf.get rejects
FetchFails(p) ==
    /\ tasks[p].status = "fetching"
    /\ order' = Append(order, p)
    /\ tasks' = Propagate([tasks EXCEPT ![p].status = "rejected",
                                        ![p].err = "transport"], order', p)
    /\ UNCHANGED <<rev, call>>

\* the tasks after the handler of p ran with outcome o: the promise of p is
\* settled or joins the fetches of its links, which are in flight
WithOutcome(ts, p, body, o) ==
    [q \in DOMAIN ts \cup {p \o <<i>> : i \in 1..Len(o.launched)} |->
        IF q = p THEN AfterHandler(ts[p], body, o)
        ELSE IF q \in DOMAIN ts THEN ts[q]
        ELSE NewTask(o.launched[q[Len(q)]])]

\* getUrl resolves with a body: the handler of ProtoBuf.get runs, and the
\* promises above react
FetchReturns(p, body) ==
    /\ tasks[p].status = "fetching"
    /\ order' = Append(order, p)
    /\ tasks' = Propagate(WithOutcome(tasks, p, body,
                                      GetHandler(rev, tasks[p].id, body)),
                          order', p)
    /\ UNCHANGED <<rev, call>>

Next ==
    \/ \E id \in RootIds : Get(id)
    \/ \E p \in DOMAIN tasks : FetchFails(p)
    \/ \E p \in DOMAIN tasks : \E body \in Answers(tasks[p].id) :
          FetchReturns(p, body)

Spec == Init /\ [][Next]_vars

\* the fetch of p settles, one way or the other
Settle(p) ==
    \/ FetchFails(p)
    \/ \E body \in Answers(tasks[p].id) : FetchReturns(p, body)

\* the external fetcher settles every call: while a fetch is in flight, one
\* of them eventually settles
SettleSome == \E p \in DOMAIN tasks : Settle(p)
SpecLive == Init /\ [][Next]_vars /\ WF_vars(SettleSome)

(***************************************************************************)
(* The codec functions called on their own                                 *)
(***************************************************************************)
\* varints: every number up to MaxSmall, and the numbers around each power
\* of 128 up to 128^MaxGroups (at most 7 groups: 2^49, which a JavaScript
\* number holds exactly)
MaxSmall == 300
MaxGroups == 6
\* payloads: the types 0..MaxType; data of up to MaxDataLen bytes
MaxType == 6
MaxDataLen == 3
\* tag words: 0..MaxTag, and the same plus a multiple of 2^32
MaxTag == 63
\* nodes: up to MaxLinks links
MaxLinks == 2

RECURSIVE Pow128(_)
Pow128(k) == IF k = 0 THEN <<1>> ELSE NumMul128Add(Pow128(k - 1), 0)
RECURSIVE AllOnes(_)
AllOnes(k) == IF k = 0 THEN <<>> ELSE NumMul128Add(AllOnes(k - 1), 127)

\* 4294967296
TwoTo32 == <<0, 0, 1>>

VarintInputs ==
    {NumOfInt(i) : i \in 0..MaxSmall}
    \cup {AllOnes(k) : k \in 1..MaxGroups}
    \cup {Pow128(k) : k \in 1..MaxGroups}
    \cup {NumMul128Add(Pow128(k - 1), 1) : k \in 1..MaxGroups}
    \cup {TwoTo32, <<1, 0, 1>>, <<65535, 65535>>}

DataBytes == {0, 18, 128, 255}
RECURSIVE SeqsUpTo(_, _)
SeqsUpTo(S, n) ==
    IF n = 0 THEN {<<>>}
    ELSE SeqsUpTo(S, n - 1)
         \cup {Append(q, x) : q \in SeqsUpTo(S, n - 1), x \in S}

\* data whose length, or whose payload's length, needs a second varint byte
LongData(n) == [i \in 1..n |-> (i * 37) % 256]
DataInputs == SeqsUpTo(DataBytes, MaxDataLen) \cup {LongData(n) : n \in 119..130}

\* a tag word below 2^16, plus hi * 2^32
TagWord(t, hi) == IF hi = 0 THEN NumOfInt(t) ELSE <<t, 0, hi>>
TagInputs == {TagWord(t, hi) : t \in 0..MaxTag, hi \in {0, 1, 8}}
SchemaTypes == {"PBNODE", "PBLINK", "UNIXFS"}

\* a field of a payload, a link or a node that a test buffer carries: absent,
\* a varint, or a byte sequence
NoField == [kind |-> "absent"]
FieldBytes(field, v) ==
    IF v.kind = "absent" THEN <<>>
    ELSE IF v.kind = "int"
    THEN Tag(field, WireVarint) \o Varint_encode(v.num)
    ELSE LenDelim(field, v.bytes)

TypeInputs ==
    {NoField} \cup {IntVal(NumOfInt(t)) : t \in 0..MaxType}
    \cup {IntVal(<<UnixFsFile, 0, 1>>), BytesVal(<<UnixFsFile>>)}
PayloadDataInputs ==
    {NoField, IntVal(<<>>), IntVal(<<5>>)}
    \cup {BytesVal(b) : b \in SeqsUpTo({7}, MaxDataLen)}
PayloadBuffer(arg) == FieldBytes(1, arg.type) \o FieldBytes(2, arg.data)

HashInputs ==
    {NoField, IntVal(<<>>), IntVal(<<HashLength>>)}
    \cup {BytesVal(SubSeq(Multihash(Leaf(1)) \o <<1, 2>>, 1, n)) :
             n \in {0, 1, HashLength - 1, HashLength, HashLength + 1}}
    \cup {BytesVal(SubSeq(Multihash(Leaf(2)), 1 + n, HashLength)) : n \in 0..2}
NameInputs == {NoField, BytesVal(<<>>), BytesVal(<<110>>)}
LinkBuffer(arg) ==
    FieldBytes(1, arg.hash) \o FieldBytes(2, arg.name) \o FieldBytes(3, arg.size)

NodeDataInputs ==
    {NoField, IntVal(<<>>), IntVal(<<9>>),
     BytesVal(Payload(UnixFsFile, <<7>>)),
     BytesVal(Payload(UnixFsDirectory, <<>>))}
NodeLinks(n) == [i \in 1..n |-> Leaf(i)]
NodeBuffer(arg) ==
    IF arg.dataFirst
    THEN FieldBytes(1, arg.data) \o LinksNode(NodeLinks(arg.nlinks))
    ELSE LinksNode(NodeLinks(arg.nlinks)) \o FieldBytes(1, arg.data)

\* raw buffers: every sequence of up to MaxBufLen bytes that are tags of
\* fields 1 and 2 (8, 18), small values and lengths, or a continuation byte
MaxBufLen == 4
BufBytes == {0, 1, 2, 8, 18, 129}
BufInputs == SeqsUpTo(BufBytes, MaxBufLen)

\* buffers of up to MaxFields fields: each is field 1 or 2, sent as a varint
\* or as bytes
MaxFields == 3
FieldItems ==
    {[field |-> f, value |-> v] :
        f \in 1..2,
        v \in {IntVal(<<1>>), IntVal(<<2>>), BytesVal(<<>>), BytesVal(<<7>>)}}
FieldsInputs == SeqsUpTo(FieldItems, MaxFields)
RECURSIVE FieldsBuffer(_)
FieldsBuffer(fs) ==
    IF fs = <<>> THEN <<>>
    ELSE FieldBytes(Head(fs).field, Head(fs).value) \o FieldsBuffer(Tail(fs))

\* one call per behaviour: the function is applied to an input drawn from
\* the sets above
Idle == call = NoCall /\ DOMAIN tasks = {}
Applied(op, arg, buf, out) == [op |-> op, arg |-> arg, buf |-> buf, out |-> out]

\* Varint.decode(Varint.encode(n)), and readVarInt on the same bytes
DecodeBoth(buf) ==
    [decode |-> Varint_decode(buf, 0), read |-> readVarInt(buf, 0)]
CallVarint(n) ==
    /\ Idle
    /\ call' = Applied("varint", n, Varint_encode(n),
                       DecodeBoth(Varint_encode(n)))
    /\ UNCHANGED <<rev, tasks, order>>

\* ProtoBuf.parse of one field under the tag word arg.tag
TagBuffer(tag) == Varint_encode(tag) \o <<0>>
CallParse(arg) ==
    /\ Idle
    /\ call' = Applied("parse", arg, TagBuffer(arg.tag),
                       ProtoBuf_parse(rev, TagBuffer(arg.tag),
                                      Schemas(rev, arg.type)))
    /\ UNCHANGED <<rev, tasks, order>>

\* ProtoBuf.parse of a raw buffer
CallParseBuf(type, buf) ==
    /\ Idle
    /\ call' = Applied("parsebuf", type, buf,
                       ProtoBuf_parse(rev, buf, Schemas(rev, type)))
    /\ UNCHANGED <<rev, tasks, order>>

\* ProtoBuf.parse of a buffer of fields
CallParseFields(arg) ==
    /\ Idle
    /\ call' = Applied("fields", arg, FieldsBuffer(arg.fields),
                       ProtoBuf_parse(rev, FieldsBuffer(arg.fields),
                                      Schemas(rev, arg.type)))
    /\ UNCHANGED <<rev, tasks, order>>

\* PBData.parse of a payload
CallData(arg) ==
    /\ Idle
    /\ call' = Applied("data", arg, PayloadBuffer(arg),
                       PBData_parse(rev, PayloadBuffer(arg)))
    /\ UNCHANGED <<rev, tasks, order>>

\* PBLink.parse of a link record
CallLink(arg) ==
    /\ Idle
    /\ call' = Applied("link", arg, LinkBuffer(arg),
                       PBLink_parse(rev, BytesVal(LinkBuffer(arg))))
    /\ UNCHANGED <<rev, tasks, order>>

\* PBNode.parse of a node
CallNode(arg) ==
    /\ Idle
    /\ call' = Applied("node", arg, NodeBuffer(arg),
                       PBNode_parse(rev, NodeBuffer(arg)))
    /\ UNCHANGED <<rev, tasks, order>>

\* PBNode.parse(PBNode.encode(b)), and ProtoBuf.get of the block when the
\* store returns it under the multihash of its bytes
ParseAndGet(enc) ==
    [parsed |-> PBNode_parse(rev, enc),
     got |-> GetHandler(rev, Multihash(enc), enc)]
CallRoundTrip(b) ==
    /\ Idle
    /\ call' = Applied("roundtrip", b, PBNode_encode(b),
                       ParseAndGet(PBNode_encode(b)))
    /\ UNCHANGED <<rev, tasks, order>>

\* a function is called while nothing else was called
NextCodec ==
    \/ Idle /\ \E n \in VarintInputs : CallVarint(n)
    \/ Idle /\ \E type \in SchemaTypes, tag \in TagInputs :
          CallParse([type |-> type, tag |-> tag])
    \/ Idle /\ \E type \in SchemaTypes, buf \in BufInputs :
          CallParseBuf(type, buf)
    \/ Idle /\ \E type \in SchemaTypes, fs \in FieldsInputs :
          CallParseFields([type |-> type, fields |-> fs])
    \/ Idle /\ \E type \in TypeInputs, data \in PayloadDataInputs :
          CallData([type |-> type, data |-> data])
    \/ Idle /\ \E hash \in HashInputs, name \in NameInputs :
          CallLink([hash |-> hash, name |-> name, size |-> IntVal(<<7>>)])
    \/ Idle /\ \E data \in NodeDataInputs, n \in 0..MaxLinks, first \in BOOLEAN :
          CallNode([data |-> data, nlinks |-> n, dataFirst |-> first])
    \/ Idle /\ \E b \in DataInputs : CallRoundTrip(b)

SpecCodec == Init /\ [][NextCodec]_vars

(***************************************************************************)
(* Properties                                                              *)
(***************************************************************************)
Root == <<>>
Started == Root \in DOMAIN tasks
Mismatch(t) == t.fetched /\ Sha256(t.body) # HashFromCID(t.id)

\* C1: in every resolve, for every block fetched at any depth, the sha256
\* check against the digest of the identifier comes before any decoding: a
\* block that PBNode.parse was invoked on has the digest of its identifier,
\* and a block with another digest makes its ProtoBuf.get fail with 'hash
\* mismatch', is never decoded, launches no fetch, and fails the resolve.
C1_VerifyBeforeDecode ==
    \A p \in DOMAIN tasks :
        /\ tasks[p].decoded =>
              tasks[p].fetched /\ Sha256(tasks[p].body) = HashFromCID(tasks[p].id)
        /\ Mismatch(tasks[p]) =>
              /\ tasks[p].status = "rejected"
              /\ tasks[p].err = "hash mismatch"
              /\ ~tasks[p].decoded
              /\ tasks[p].nkids = 0
              /\ tasks[Root].status = "rejected"

\* a linked block two levels down arrived with other bytes, after its parent
\* and the root had been verified and decoded
C1_Witness ==
    /\ Started
    /\ tasks[Root].decoded
    /\ tasks[Root].status = "rejected"
    /\ tasks[Root].err = "hash mismatch"
    /\ \E p \in DOMAIN tasks :
          Len(p) = 2 /\ Mismatch(tasks[p]) /\ tasks[Parent(p)].decoded

\* the bytes each resolved link of p gave, in the order of the link records
ByLinkOrder(p) == Concat([i \in 1..tasks[p].nkids |-> tasks[p \o <<i>>].result])

RECURSIVE LeavesUpTo(_)
LeavesUpTo(k) == IF k = 0 THEN <<>> ELSE LeavesUpTo(k - 1) \o LeafData(k)

\* C2: whatever the order in which the link resolutions complete, a node
\* with links L1..Ln resolves to B1 || ... || Bn in the order of the link
\* records; the node of k links to the leaves 1..k resolves to their data in
\* that order.
C2_LinkOrder ==
    \A p \in DOMAIN tasks :
        tasks[p].status = "resolved" /\ tasks[p].nkids > 0 =>
            /\ tasks[p].result = ByLinkOrder(p)
            /\ \A k \in 1..MaxFanout :
                  tasks[p].body = Fan(k) => tasks[p].result = LeavesUpTo(k)

\* the three links of a node completed last link first
C2_Witness ==
    /\ Started
    /\ tasks[Root].status = "resolved"
    /\ tasks[Root].nkids = 3
    /\ order = <<Root, <<3>>, <<2>>, <<1>>>>
    /\ tasks[Root].result = LeavesUpTo(3)

AllOrNothingStep ==
    /\ Started /\ Settled(tasks[Root]) => tasks'[Root] = tasks[Root]
    /\ \A p \in DOMAIN tasks' :
          tasks'[p].status = "rejected" => tasks'[Root].status = "rejected"
    /\ \A p \in DOMAIN tasks' :
          /\ tasks'[Root].status = "resolved" => tasks'[p].status = "resolved"
          /\ tasks'[p].status = "resolved" /\ tasks'[p].nkids > 0 =>
                tasks'[p].result =
                    Concat([i \in 1..tasks'[p].nkids |->
                               tasks'[p \o <<i>>].result])

\* C3: resolve is all-or-nothing under every interleaving: once any block at
\* any depth has failed the top-level promise is rejected; it settles once
\* (a settled outcome never changes, whatever completes afterwards); and it
\* resolves only when every call below it resolved, to the bytes of all of
\* them.
C3_AllOrNothing == [][AllOrNothingStep]_vars

\* a link's fetch completed with success after the resolve had failed
C3_Witness ==
    /\ Started
    /\ tasks[Root].status = "rejected"
    /\ \E i, j \in 1..Len(order) :
          /\ i < j
          /\ tasks[order[i]].status = "rejected"
          /\ tasks[order[j]].status = "resolved"
          /\ order[j] # Root

\* C4: PBNode.parse(PBNode.encode(b)) succeeds and returns b for every byte
\* sequence b, the empty one included; and when the store keeps the encoded
\* block under the sha256 multihash of its bytes, ProtoBuf.get of that key
\* verifies, decodes and returns b.
C4_EncodeRoundTrip ==
    call.op = "roundtrip" =>
        /\ call.out.parsed = Value(call.arg)
        /\ call.out.got = [Value(call.arg) EXCEPT !.decoded = TRUE]

\* data of 128 bytes, whose length takes two varint bytes, came back
C4_Witness ==
    /\ call.op = "roundtrip"
    /\ Len(call.arg) = 128
    /\ call.out.parsed.kind = "value"
    /\ call.out.parsed.bytes = call.arg
    /\ call.out.got.bytes = call.arg

\* C5: Varint.decode(Varint.encode(n)) gives the value n and a consumed
\* length equal to the length of Varint.encode(n), also above 32 bits; and
\* readVarInt reads the same value from those bytes and stops after them.
C5_VarintRoundTrip ==
    call.op = "varint" =>
        /\ call.out.decode =
              [ok |-> TRUE, value |-> call.arg, length |-> Len(call.buf)]
        /\ call.out.read =
              [ok |-> TRUE, value |-> call.arg, offset |-> Len(call.buf)]

\* 4294967296 went through five bytes and came back
C5_Witness ==
    /\ call.op = "varint"
    /\ call.arg = TwoTo32
    /\ Len(call.buf) = 5
    /\ call.out.decode.ok
    /\ call.out.decode.value = TwoTo32

Is34Bytes(v) == v.kind = "bytes" /\ Len(v.bytes) = HashLength

\* C6: PBLink.parse issues a fetch exactly when the decoded hash is a byte
\* sequence of 34 bytes, for that very hash; for every other link record (a
\* shorter or longer hash, or no hash field at all) it fails with the
\* unsupported-hash error and issues no fetch.
C6_LinkHashShape ==
    call.op = "link" =>
        IF Is34Bytes(call.arg.hash)
        THEN call.out = Fetch(call.arg.hash.bytes)
        ELSE call.out = Throw("unsupported hash")

IsFile(v) == v = IntVal(NumOfInt(UnixFsFile))

\* C7: PBData.parse fails with 'unsupported type' for every payload whose
\* decoded type is not File: another enum value, an integer out of range, or
\* no type field; it never returns bytes for such a payload.
C7_OnlyFileType ==
    call.op = "data" /\ ~IsFile(call.arg.type) =>
        call.out = Throw("unsupported type")

\* a Directory payload that carries data bytes was refused
C7_Witness ==
    /\ call.op = "data"
    /\ call.arg.type = IntVal(NumOfInt(UnixFsDirectory))
    /\ call.arg.data = BytesVal(<<7, 7>>)
    /\ call.out = Throw("unsupported type")

\* the payload of a decoded node has a type, and it is not File
OtherType(payload) ==
    payload.ok /\ Has(payload, "type") /\ ~IsFile(payload.fields["type"])
PayloadOtherType(r, node) ==
    /\ node.ok
    /\ Has(node, "data")
    /\ node.fields["data"].kind = "bytes"
    /\ OtherType(ProtoBuf_parse(r, node.fields["data"].bytes,
                                Schemas(r, "UNIXFS")))
CarriesOtherType(r, body) ==
    PayloadOtherType(r, ProtoBuf_parse(r, body, Schemas(r, "PBNODE")))

\* C8: whenever resolve succeeds, every node it traversed that carries an
\* inline payload has payload type File; a node with links and a Directory
\* payload makes resolve fail.
C8_OnlyFilePayloads ==
    Started /\ tasks[Root].status = "resolved" =>
        \A p \in DOMAIN tasks :
            tasks[p].decoded => ~CarriesOtherType(rev, tasks[p].body)

HasLinks(arg) == arg.nlinks > 0
HasData(arg) == arg.data.kind = "bytes"
LinkIds(n) == [i \in 1..n |-> Multihash(Leaf(i))]

DataOfOtherType(r, arg) ==
    /\ HasData(arg)
    /\ OtherType(ProtoBuf_parse(r, arg.data.bytes, Schemas(r, "UNIXFS")))

FieldInSchema(tag, n) == NumIsSmall(tag) /\ NumToInt(tag) \div 8 \in 1..n

\* C10: for every schema and every tag word, also of 2^32 or more, if the
\* field number floor(tagWord / 8) is 0 or greater than the number of fields
\* of the schema, ProtoBuf.parse fails with 'unknown field' and returns no
\* record.
C10_UnknownField ==
    call.op = "parse"
    /\ ~FieldInSchema(call.arg.tag, Len(Schemas(rev, call.arg.type).names)) =>
        call.out = [ok |-> FALSE, err |-> "unknown field"]

Overrun == [ok |-> FALSE, err |-> "buffer overrun"]

\* the loop of ProtoBuf.parse stands at cursor i of buf with every field
\* before it read: the first i bytes parse, and end exactly there
CursorIs(result, i) == result.ok /\ result.offset = i
ReachesTag(r, type, buf, i) ==
    CursorIs(ProtoBuf_parse(r, SubSeq(buf, 1, i), Schemas(r, type)), i)

\* the byte is a one-byte tag word of a field of the schema with wire type w
NamesField(r, type, b, w) ==
    b < 128 /\ b % 8 = w /\ b \div 8 \in 1..Len(Schemas(r, type).names)

\* for a tag word that starts at cursor i: the tag word has its continuation
\* bit set on the final byte; or the value or length prefix after it would
\* start at the end of the buffer; or that varint is the final byte and has
\* its continuation bit set
VarintRunsOut(r, type, buf, i) ==
    \/ i + 1 = Len(buf) /\ buf[i + 1] >= 128
    \/ /\ \E w \in {WireVarint, WireVarLength} : NamesField(r, type, buf[i + 1], w)
       /\ \/ i + 1 = Len(buf)
          \/ i + 2 = Len(buf) /\ buf[i + 2] >= 128

\* C11: ProtoBuf.parse never reads at or beyond the end of the buffer:
\* whenever a varint (a tag word, a varint field value or a length prefix)
\* would start at the end of the buffer or has its continuation bit set on
\* the final byte, parse fails with 'buffer overrun'; a buffer that ends
\* right after the tag word of a varint field is a failure, not a field 0.
C11_NoReadPastEnd ==
    call.op = "parsebuf" =>
        \A i \in 0..(Len(call.buf) - 1) :
            /\ ReachesTag(rev, call.arg, call.buf, i)
            /\ VarintRunsOut(rev, call.arg, call.buf, i)
            => call.out = Overrun

\* a length-delimited field starts at cursor i with a one-byte length prefix
LengthAt(r, type, buf, i) ==
    /\ ReachesTag(r, type, buf, i)
    /\ NamesField(r, type, buf[i + 1], WireVarLength)
    /\ buf[i + 2] < 128

\* C12: for every length-delimited field, ProtoBuf.parse fails with 'buffer
\* overrun' whenever the cursor just after the length prefix plus the declared
\* length exceeds the buffer length; otherwise the cursor advances by exactly
\* the declared number of bytes; and on success the final cursor equals the
\* buffer length (no value was shortened by the end of the buffer).
C12_LengthDelimited ==
    call.op = "parsebuf" =>
        /\ \A i \in 0..(Len(call.buf) - 2) :
              LengthAt(rev, call.arg, call.buf, i) =>
                  IF i + 2 + call.buf[i + 2] > Len(call.buf)
                  THEN call.out = Overrun
                  ELSE ReachesTag(rev, call.arg, call.buf,
                                  i + 2 + call.buf[i + 2])
        /\ call.out.ok => call.out.offset = Len(call.buf)

\* what the claim gives for a File payload whose field 2 is d
DataOutcome(d) ==
    IF d.kind = "absent" THEN Value(<<>>)
    ELSE IF d.kind = "bytes" THEN Value(d.bytes)
    ELSE Throw("bad Data")

\* C13: for a File payload, PBData.parse returns the empty byte sequence
\* when field 2 (data) does not occur, returns the data bytes unchanged when
\* field 2 was decoded as a byte sequence (also one of length zero), and
\* fails with 'bad Data' when field 2 was decoded as a varint of any value,
\* 0 included.
C13_PayloadData ==
    call.op = "data" /\ IsFile(call.arg.type) =>
        call.out = DataOutcome(call.arg.data)

\* the first two bytes of the identifier are the sha2-256 function byte and
\* the length 32
Sha256Prefix(id) == SubSeq(id, 1, 2) = <<18, DigestLength>>

\* C14: a block is accepted only under a multihash whose 2-byte prefix is the
\* recognized hash-function byte followed by length 32: under a top-level
\* identifier or a 34-byte link hash with other first two bytes the block is
\* not decoded and the call is rejected, even when the remaining 32 bytes are
\* the sha256 of the fetched block.
C14_MultihashPrefix ==
    \A p \in DOMAIN tasks :
        ~Sha256Prefix(tasks[p].id) =>
            /\ ~tasks[p].decoded
            /\ tasks[p].status # "resolved"
            /\ tasks[p].fetched => tasks[p].status = "rejected"

Done == Started /\ Settled(tasks[Root])
Pending(t) == t.status = "fetching"

\* the link records of a decoded node
LinkCount(node) == IF node.ok /\ Has(node, "links") THEN Len(node.fields["links"]) ELSE 0
LinksOf(r, body) == LinkCount(ProtoBuf_parse(r, body, Schemas(r, "PBNODE")))

\* resolve is pending while a fetch it still needs is pending: nothing has
\* failed and some fetch is in flight
StillNeeded ==
    /\ Started
    /\ \E p \in DOMAIN tasks : Pending(tasks[p])
    /\ \A p \in DOMAIN tasks : tasks[p].status # "rejected"

\* each link occurrence has a call of its own: a node that waits for its
\* links or resolved through them has one call per link record, and a node
\* resolves only after each of them was fetched, verified and decoded
OneCallPerLink ==
    \A p \in DOMAIN tasks :
        tasks[p].status \in {"joining", "resolved"} /\ tasks[p].decoded =>
            /\ tasks[p].nkids = LinksOf(rev, tasks[p].body)
            /\ tasks[p].status = "resolved" =>
                  \A i \in 1..tasks[p].nkids :
                      tasks[p \o <<i>>].fetched /\ tasks[p \o <<i>>].decoded

\* a call gets its block only from a fetch of its own, which settles then
OwnFetchStep ==
    \A p \in DOMAIN tasks' :
        IF p \in DOMAIN tasks
        THEN tasks'[p].fetched /\ ~tasks[p].fetched => order' = Append(order, p)
        ELSE Pending(tasks'[p]) /\ ~tasks'[p].fetched

\* C15: if every call of the fetcher eventually settles, every resolve
\* eventually settles; resolve stays pending while a fetch it still needs is
\* pending; and each link occurrence causes a fetch of its own (no cache):
\* a block linked k times is fetched, verified and decoded k times.
C15_Liveness ==
    /\ Started ~> Done
    /\ [](StillNeeded => ~Done)
    /\ []OneCallPerLink
    /\ [][OwnFetchStep]_vars

\* the node that links one block twice resolved after three fetches, two of
\* them of the same identifier
C15_Witness ==
    /\ Done
    /\ tasks[Root].status = "resolved"
    /\ tasks[Root].body = TwiceNode
    /\ tasks[<<1>>].id = tasks[<<2>>].id
    /\ tasks[<<1>>].decoded /\ tasks[<<2>>].decoded
    /\ Len(order) = 3
    /\ tasks[Root].result = LeafData(1) \o LeafData(1)

\* the values of the occurrences of field f in a buffer of fields, in order
RECURSIVE Occurrences(_, _)
Occurrences(fs, f) ==
    IF fs = <<>> THEN <<>>
    ELSE IF Head(fs).field = f
    THEN <<Head(fs).value>> \o Occurrences(Tail(fs), f)
    ELSE Occurrences(Tail(fs), f)

\* the record has, under name, the first of the occurrences, or all of them
\* in order when the schema marks the field as repeated
KeepsOccurrences(result, schema, name, occ) ==
    IF occ = <<>> THEN ~Has(result, name)
    ELSE /\ Has(result, name)
         /\ result.fields[name] =
               IF name \in schema.repeated THEN occ ELSE occ[1]

\* C16: when a field that the schema does not mark as repeated occurs
\* several times in a buffer, ProtoBuf.parse returns the value of its first
\* occurrence and drops the later ones; for the repeated field links it
\* returns all occurrences in buffer order, also with other fields between.
C16_FirstOccurrence ==
    call.op = "fields" =>
        /\ call.out.ok
        /\ \A f \in 1..2 :
              KeepsOccurrences(call.out, Schemas(rev, call.arg.type),
                               Schemas(rev, call.arg.type).names[f],
                               Occurrences(call.arg.fields, f))

\* a payload with type File, then data, then type Directory was read as
\* File, and PBData.parse of it returned the data
C16_Witness ==
    /\ call.op = "fields"
    /\ call.arg.type = "UNIXFS"
    /\ call.arg.fields = <<[field |-> 1, value |-> IntVal(<<UnixFsFile>>)],
                           [field |-> 2, value |-> BytesVal(<<7>>)],
                           [field |-> 1, value |-> IntVal(<<UnixFsDirectory>>)]>>
    /\ call.out.ok
    /\ call.out.fields["type"] = IntVal(<<UnixFsFile>>)
    /\ PBData_parse(rev, call.buf) = Value(<<7>>)

=============================================================================
